---- MODULE Spec2Model ----
(***************************************************************************)
(* Model of the line-addressed text-editing engine of jarvis:              *)
(* HandleEditFile, HandleEditMultipleFiles, HandleInsertText,              *)
(* HandleReplaceText and the helpers of package common they call.          *)
(*                                                                         *)
(* A text is a sequence of one-character strings; a line buffer is a       *)
(* sequence of texts.  The file system is a map from paths to texts, the   *)
(* backup files a map from <<path, timestamp>> to texts.  os.ReadFile and  *)
(* os.WriteFile may fail; a failed call leaves the file system unchanged.  *)
(* A run-time panic inside a handler (slice bounds out of range) is caught *)
(* by server.WithRecovery() (main.go) and ends the request.                *)
(***************************************************************************)
EXTENDS Integers, Sequences, FiniteSets, TLC

VARIABLES
    disk,       \* path -> text: the content of every target file
    backups,    \* <<path, ts>> -> text or NoFile: the files path.backup.ts
    clock,      \* time.Now().Unix()
    req,        \* the request being served, or NoReq
    pc,         \* position of the handler serving req
    idx,        \* loop index of the handler (file or operation, 1-based)
    buf,        \* resultLines of HandleEditFile's non-atomic loop
    results,    \* HandleEditMultipleFiles: results
    errors,     \* HandleEditMultipleFiles: errors
    outcome,    \* what the handler returned
    pre,        \* history: disk when the request was received
    log,        \* history: the file system calls of the request, in order
    fn          \* SpecOps: the pure function under check, its input and output

vars == <<disk, backups, clock, req, pc, idx, buf, results, errors, outcome, pre, log, fn>>

---------------------------------------------------------------------------
(* Bounds *)

\* largest value of the clock (seconds) a behaviour reaches
MaxClock == 1
\* SpecOps: longest line buffer handed to the pure functions
MaxLines == 3
\* SpecOps: longest operation list handed to the pure functions
MaxOps == 3
\* SpecIns: longest insertion list handed to ApplyTextInsertions
MaxIns == 2
MaxSegs == 3
MaxText == 4
MaxContent == 3

---------------------------------------------------------------------------
(* Texts *)

LF == "\n"
CR == "\r"

NoReq == [kind |-> "none"]

RECURSIVE ReplaceCRLF(_)
\* strings.ReplaceAll(content, "\r\n", "\n")
ReplaceCRLF(t) ==
    IF Len(t) = 0 THEN <<>>
    ELSE IF Len(t) >= 2 /\ t[1] = CR /\ t[2] = LF
         THEN <<LF>> \o ReplaceCRLF(SubSeq(t, 3, Len(t)))
         ELSE <<t[1]>> \o ReplaceCRLF(Tail(t))

\* strings.ReplaceAll(content, "\r", "\n")
ReplaceCR(t) == [i \in 1..Len(t) |-> IF t[i] = CR THEN LF ELSE t[i]]

RECURSIVE SplitOn(_, _)
\* strings.Split(t, sep) for a one-character sep: always at least one
\* (possibly empty) piece
SplitOn(t, sep) ==
    IF \E i \in 1..Len(t) : t[i] = sep
    THEN LET i == CHOOSE k \in 1..Len(t) :
                      t[k] = sep /\ \A m \in 1..(k - 1) : t[m] # sep
         IN  <<SubSeq(t, 1, i - 1)>> \o SplitOn(SubSeq(t, i + 1, Len(t)), sep)
    ELSE <<t>>

\* a splitter that drops the empty piece after a final separator
SplitLines_DropTrailing(content) ==
    LET l == SplitOn(ReplaceCR(ReplaceCRLF(content)), LF)
    IN  IF Len(l) > 1 /\ l[Len(l)] = <<>> THEN SubSeq(l, 1, Len(l) - 1) ELSE l

\* SplitLines: normalise CR LF and CR to LF, then strings.Split on LF
SplitLines(content) == SplitOn(ReplaceCR(ReplaceCRLF(content)), LF)

RECURSIVE JoinLines(_)
\* strings.Join(lines, "\n")
JoinLines(lines) ==
    IF Len(lines) = 0 THEN <<>>
    ELSE IF Len(lines) = 1 THEN lines[1]
    ELSE lines[1] \o <<LF>> \o JoinLines(Tail(lines))

---------------------------------------------------------------------------
(* Edit operations (types.EditOperation) and the helpers of package common *)

Op(s, e, r) == [StartLine |-> s, EndLine |-> e, Replacement |-> r, Description |-> <<>>]

Ok == [kind |-> "ok", i |-> 0, j |-> 0]
\* the result of a splice: the new buffer, or a run-time panic
Applied(lines) == [panic |-> FALSE, lines |-> lines]
Panicked == [panic |-> TRUE, lines |-> <<>>]

\* a test that lets two ranges meet on a boundary line
OperationsOverlap_Strict(op1, op2) ==
    ~(op1.EndLine <= op2.StartLine \/ op2.EndLine <= op1.StartLine)

\* OperationsOverlap: !(op1.EndLine < op2.StartLine || op2.EndLine < op1.StartLine)
OperationsOverlap(op1, op2) ==
    ~(op1.EndLine < op2.StartLine \/ op2.EndLine < op1.StartLine)

\* the three checks ValidateEditOperations makes on operation i (1-based) of
\* a buffer of n lines, in the code's order
RangeError(n, op, i) ==
    IF op.StartLine < 1 \/ op.EndLine < 1
    THEN [kind |-> "positive", i |-> i, j |-> 0]
    ELSE IF op.StartLine > n \/ op.EndLine > n
    THEN [kind |-> "exceed", i |-> i, j |-> 0]
    ELSE IF op.StartLine > op.EndLine
    THEN [kind |-> "order", i |-> i, j |-> 0]
    ELSE Ok

RECURSIVE CheckRanges(_, _, _)
\* the first loop of ValidateEditOperations, from operation i on
CheckRanges(n, operations, i) ==
    IF i > Len(operations) THEN Ok
    ELSE LET e == RangeError(n, operations[i], i)
         IN  IF e.kind # "ok" THEN e ELSE CheckRanges(n, operations, i + 1)

RECURSIVE CheckOverlaps(_, _, _)
\* the nested loops of ValidateEditOperations, from the pair (i, j) on
CheckOverlaps(operations, i, j) ==
    IF i > Len(operations) THEN Ok
    ELSE IF j > Len(operations) THEN CheckOverlaps(operations, i + 1, i + 2)
    ELSE IF OperationsOverlap(operations[i], operations[j])
         THEN [kind |-> "overlap", i |-> i, j |-> j]
         ELSE CheckOverlaps(operations, i, j + 1)

\* a validator that looks at the first pair of operations only
ValidateEditOperations_FirstPairOnly(lines, operations) ==
    LET e == CheckRanges(Len(lines), operations, 1)
    IN  IF e.kind # "ok" THEN e
        ELSE IF Len(operations) >= 2 /\ OperationsOverlap(operations[1], operations[2])
             THEN [kind |-> "overlap", i |-> 1, j |-> 2]
             ELSE Ok

\* ValidateEditOperations: Ok, or the first error found
ValidateEditOperations(lines, operations) ==
    LET e == CheckRanges(Len(lines), operations, 1)
    IN  IF e.kind # "ok" THEN e ELSE CheckOverlaps(operations, 1, 2)

Swap(s, i, j) == [s EXCEPT ![i] = s[j], ![j] = s[i]]

RECURSIVE SortInner(_, _, _)
\* the inner loop of SortOperationsByLine: j from i + 1 to the end
SortInner(sorted, i, j) ==
    IF j > Len(sorted) THEN sorted
    ELSE SortInner(IF sorted[i].StartLine < sorted[j].StartLine
                   THEN Swap(sorted, i, j) ELSE sorted, i, j + 1)

RECURSIVE SortOuter(_, _)
\* the outer loop of SortOperationsByLine: i from the first to the last but one
SortOuter(sorted, i) ==
    IF i > Len(sorted) - 1 THEN sorted
    ELSE SortOuter(SortInner(sorted, i, i + 1), i + 1)

\* a sort that returns the operations in request order
SortOperationsByLine_Unsorted(operations) == operations

\* SortOperationsByLine: a copy, by StartLine descending
SortOperationsByLine(operations) == SortOuter(operations, 1)

\* the capacity the handlers ask make() for
CapEstimate(resultLines, op) ==
    Len(resultLines)
      + (Cardinality({k \in 1..Len(op.Replacement) : op.Replacement[k] = LF}) + 1)
      - (op.EndLine - (op.StartLine - 1))

\* resultLines[:startIdx], resultLines[endIdx:] or make() panics.  The
\* buffers of the handlers have no spare capacity (len = cap) as long as no
\* replacement holds a lone CR, which is the case for every menu below.
SlicePanics(resultLines, op) ==
    \/ op.StartLine - 1 < 0
    \/ op.StartLine - 1 > Len(resultLines)
    \/ op.EndLine < 0
    \/ op.EndLine > Len(resultLines)
    \/ CapEstimate(resultLines, op) < 0

\* a splice that keeps the last line of the replaced range
ApplyOperation_KeepLast(resultLines, op) ==
    IF SlicePanics(resultLines, op) THEN Panicked
    ELSE Applied(SubSeq(resultLines, 1, op.StartLine - 1)
                   \o SplitLines(op.Replacement)
                   \o SubSeq(resultLines, IF op.EndLine >= 1 THEN op.EndLine ELSE 1,
                             Len(resultLines)))

\* one pass of the handlers' loop body: lines[:startIdx] + SplitLines(repl)
\* + lines[endIdx:], with startIdx = StartLine - 1 and endIdx = EndLine
ApplyOperation(resultLines, op) ==
    IF SlicePanics(resultLines, op) THEN Panicked
    ELSE Applied(SubSeq(resultLines, 1, op.StartLine - 1)
                   \o SplitLines(op.Replacement)
                   \o SubSeq(resultLines, op.EndLine + 1, Len(resultLines)))

RECURSIVE ApplyFrom(_, _, _)
ApplyFrom(resultLines, sortedOps, k) ==
    IF k > Len(sortedOps) THEN Applied(resultLines)
    ELSE LET r == ApplyOperation(resultLines, sortedOps[k])
         IN  IF r.panic THEN r ELSE ApplyFrom(r.lines, sortedOps, k + 1)

\* the loop "for _, op := range sortedOps" of HandleEditFile (atomic) and
\* HandleEditMultipleFiles
ApplyOperations(lines, sortedOps) == ApplyFrom(lines, sortedOps, 1)

\* an atomic branch that writes after the first sorted operation
EditFileResult_FirstOnly(lines, operations) ==
    LET sortedOps == SortOperationsByLine(operations)
        r == ApplyOperations(lines, SubSeq(sortedOps, 1, 1))
    IN  [panic |-> r.panic, text |-> JoinLines(r.lines)]

\* the content HandleEditFile writes in atomic mode: sort, splice every
\* operation, join
EditFileResult(lines, operations) ==
    LET r == ApplyOperations(lines, SortOperationsByLine(operations))
    IN  [panic |-> r.panic, text |-> JoinLines(r.lines)]

\* the content HandleEditMultipleFiles writes for one file
EditMultipleFilesResult(lines, operations) ==
    LET r == ApplyOperations(lines, SortOperationsByLine(operations))
    IN  [panic |-> r.panic, text |-> JoinLines(r.lines)]

---------------------------------------------------------------------------
(* SpecOps: the pure functions on bounded inputs.                          *)
(* fn.lines is a buffer of 1..MaxLines distinct lines, fn.ops a list of at *)
(* most MaxOps operations with line numbers in 0..Len(lines) + 1 (so that  *)
(* zero, out-of-bounds and reversed ranges occur; a reversed range ends    *)
(* one line before its start); the operation at                            *)
(* request position i carries the replacement text ReplText(i).  The       *)
(* actions are given with the specification, after the engine.             *)

Digits == <<"1", "2", "3", "4", "5", "6", "7", "8", "9">>
Buffer(n) == [i \in 1..n |-> <<Digits[i]>>]

ReplText(i) ==
    CASE i = 1 -> <<"A">>
      [] i = 2 -> <<"B", CR, LF, "C">>
      [] i = 3 -> <<>>
      [] OTHER -> <<"D">>

---------------------------------------------------------------------------
(* The path sandbox (IsPathAllowed, IsSubPath) *)

Sep == "/"

RECURSIVE JoinSegs(_)
JoinSegs(segs) ==
    IF Len(segs) = 0 THEN <<>> ELSE <<Sep>> \o segs[1] \o JoinSegs(Tail(segs))

RECURSIVE CleanSegs(_, _)
\* filepath.Clean on the segments of a rooted path: "" and "." are dropped,
\* ".." removes the segment before it (and is dropped at the root)
CleanSegs(segs, acc) ==
    IF Len(segs) = 0 THEN acc
    ELSE IF segs[1] = <<>> \/ segs[1] = <<".">> THEN CleanSegs(Tail(segs), acc)
    ELSE IF segs[1] = <<".", ".">>
         THEN CleanSegs(Tail(segs), IF Len(acc) = 0 THEN acc ELSE SubSeq(acc, 1, Len(acc) - 1))
         ELSE CleanSegs(Tail(segs), Append(acc, segs[1]))

\* the working directory filepath.Abs joins a relative path to
Cwd == <<Sep, "w">>

\* filepath.Abs: the cleaned path, made absolute
Abs(path) ==
    LET full == IF Len(path) > 0 /\ path[1] = Sep THEN path ELSE Cwd \o <<Sep>> \o path
        segs == CleanSegs(SplitOn(full, Sep), <<>>)
    IN  IF Len(segs) = 0 THEN <<Sep>> ELSE JoinSegs(segs)

\* a prefix test on the raw strings
IsSubPath_RawPrefix(path, parent) ==
    Len(path) >= Len(parent) /\ SubSeq(path, 1, Len(parent)) = parent

\* IsSubPath: both paths get a trailing separator, then a prefix test
IsSubPath(path, parent) ==
    LET par == IF parent[Len(parent)] # Sep THEN parent \o <<Sep>> ELSE parent
        pth == IF path[Len(path)] # Sep THEN path \o <<Sep>> ELSE path
    IN  Len(pth) >= Len(par) /\ SubSeq(pth, 1, Len(par)) = par

\* config.AllowedDirectories of the running server
AllowedDirectories == <<<<Sep, "t">>, <<Sep, "v", Sep, "l">>>>

\* IsPathAllowed: the absolute path is under some allowed directory
IsPathAllowed(path) ==
    \E k \in 1..Len(AllowedDirectories) :
        IsSubPath(Abs(path), Abs(AllowedDirectories[k]))

---------------------------------------------------------------------------
(* Files, backups, previews *)

File(content) == [exists |-> TRUE, content |-> content]
NoFile == [exists |-> FALSE, content |-> <<>>]

\* CreateBackup, both calls succeeding: os.WriteFile(filePath + ".backup." +
\* ts, content) creates the backup file or truncates and rewrites it
CreateBackup(bk, filePath, ts, content) ==
    [bk EXCEPT ![<<filePath, ts>>] = File(content)]

\* GenerateEditPreview indexes lines[StartLine - 1] first
PreviewPanics(lines, operations) ==
    \E k \in 1..Len(operations) :
        /\ operations[k].StartLine - 1 < 0
        /\ operations[k].StartLine - 1 < operations[k].EndLine
        /\ operations[k].StartLine - 1 < Len(lines)

\* GenerateEditPreview, one block per operation: the numbered original
\* lines of the range that exist, and the replacement split on LF (not
\* SplitLines) numbered from StartLine
GenerateEditPreview(lines, operations) ==
    [k \in 1..Len(operations) |->
        LET op == operations[k]
            hi == IF op.EndLine < Len(lines) THEN op.EndLine ELSE Len(lines)
            rl == SplitOn(op.Replacement, LF)
        IN  [StartLine |-> op.StartLine,
             EndLine |-> op.EndLine,
             original |-> [m \in 1..(IF hi >= op.StartLine THEN hi - op.StartLine + 1 ELSE 0) |->
                              <<op.StartLine + m - 1, lines[op.StartLine + m - 1]>>],
             replacement |-> [m \in 1..Len(rl) |-> <<op.StartLine + m - 1, rl[m]>>],
             Description |-> op.Description]]

---------------------------------------------------------------------------
(* Insertions (types.TextInsertion) and ApplyTextInsertions *)

Ins(l, c, b) == [Line |-> l, Content |-> c, Before |-> b]

RECURSIVE InsSortInner(_, _, _)
InsSortInner(insertions, i, j) ==
    IF j > Len(insertions) THEN insertions
    ELSE InsSortInner(IF insertions[i].Line < insertions[j].Line
                      THEN Swap(insertions, i, j) ELSE insertions, i, j + 1)

RECURSIVE InsSortOuter(_, _)
\* the in-place sort of ApplyTextInsertions, by Line descending
InsSortOuter(insertions, i) ==
    IF i > Len(insertions) - 1 THEN insertions
    ELSE InsSortOuter(InsSortInner(insertions, i, i + 1), i + 1)

RECURSIVE InsertFrom(_, _, _, _)
\* the loop of ApplyTextInsertions from the k-th sorted insertion on; lines
\* has no spare capacity, so lines[:line] panics for line = len(lines) + 1
InsertFrom(content, lines, sorted, k) ==
    IF k > Len(sorted) THEN [kind |-> "ok", text |-> JoinLines(lines)]
    ELSE LET line == sorted[k].Line
             insertLines == SplitLines(sorted[k].Content)
         IN  IF line < 1 \/ line > Len(lines) + 1
             THEN [kind |-> "error", text |-> content]
             ELSE IF sorted[k].Before
             THEN InsertFrom(content,
                             SubSeq(lines, 1, line - 1) \o insertLines
                               \o SubSeq(lines, line, Len(lines)),
                             sorted, k + 1)
             ELSE IF line > Len(lines)
             THEN [kind |-> "panic", text |-> content]
             ELSE InsertFrom(content,
                             SubSeq(lines, 1, line) \o insertLines
                               \o SubSeq(lines, line + 1, Len(lines)),
                             sorted, k + 1)

\* ApplyTextInsertions (adjustLineNumbers is never read by the code)
ApplyTextInsertions(content, insertions, adjustLineNumbers) ==
    IF Len(insertions) = 0 THEN [kind |-> "ok", text |-> content]
    ELSE InsertFrom(content, SplitLines(content), InsSortOuter(insertions, 1), 1)

---------------------------------------------------------------------------
(* ReplaceText *)

Lower(c) == CASE c = "A" -> "a" [] c = "B" -> "b" [] OTHER -> c
ToLower(t) == [i \in 1..Len(t) |-> Lower(t[i])]

\* strings.Index for a non-empty sub: 0-based, -1 when absent
Index(t, sub) ==
    LET at == {i \in 1..(Len(t) - Len(sub) + 1) : SubSeq(t, i, i + Len(sub) - 1) = sub}
    IN  IF at = {} THEN -1 ELSE (CHOOSE i \in at : \A m \in at : i <= m) - 1

RECURSIVE Count(_, _)
\* strings.Count for a non-empty sub: non-overlapping occurrences
Count(t, sub) ==
    LET i == Index(t, sub)
    IN  IF i = -1 THEN 0 ELSE 1 + Count(SubSeq(t, i + Len(sub) + 1, Len(t)), sub)

RECURSIVE Replace(_, _, _, _)
\* strings.Replace(t, old, new, n) for a non-empty old: the first n
\* occurrences, all of them when n < 0, none when n = 0
Replace(t, old, new, n) ==
    LET i == Index(t, old)
    IN  IF n = 0 \/ i = -1 THEN t
        ELSE SubSeq(t, 1, i) \o new
               \o Replace(SubSeq(t, i + Len(old) + 1, Len(t)), old, new,
                          IF n < 0 THEN n ELSE n - 1)

RECURSIVE FoldReplace(_, _, _, _, _, _)
\* the loop of the case-insensitive branch
FoldReplace(remaining, find, replace, maxReplacements, count, result) ==
    LET index == Index(ToLower(remaining), ToLower(find))
    IN  IF index = -1 \/ (maxReplacements > 0 /\ count >= maxReplacements)
        THEN [err |-> FALSE, text |-> result \o remaining, count |-> count]
        ELSE FoldReplace(SubSeq(remaining, index + Len(find) + 1, Len(remaining)),
                         find, replace, maxReplacements, count + 1,
                         result \o SubSeq(remaining, 1, index) \o replace)

\* ReplaceText: (new content, count, error)
ReplaceText(content, find, replace, regex, caseSensitive, wholeWord, maxReplacements) ==
    IF Len(find) = 0 THEN [err |-> TRUE, text |-> content, count |-> 0]
    ELSE IF ~regex /\ ~wholeWord /\ caseSensitive
    THEN LET c == Count(content, find)
         IN  [err |-> FALSE,
              text |-> Replace(content, find, replace, maxReplacements),
              count |-> IF maxReplacements > 0 /\ c > maxReplacements
                        THEN maxReplacements ELSE c]
    ELSE IF ~regex /\ ~wholeWord /\ ~caseSensitive
    THEN FoldReplace(content, find, replace, maxReplacements, 0, <<>>)
    ELSE [err |-> TRUE, text |-> content, count |-> 0]

---------------------------------------------------------------------------
(* The engine: requests, file system, handlers *)

PA == <<Sep, "t", Sep, "a">>
PB == <<Sep, "t", Sep, "b">>
PX == <<Sep, "e", Sep, "x">>
Paths == {PA, PB, PX}

InitDisk ==
    [p \in Paths |->
        IF p = PA THEN File(<<"a", LF, "b", LF, "c">>)
        ELSE IF p = PB THEN File(<<"d", LF, "e">>)
        ELSE File(<<"s">>)]

BackupNames == Paths \X (0..MaxClock)

\* common.IsPathAllowed on the paths of the requests (the configuration
\* does not change while the engine runs)
PathAllowed == [p \in Paths |-> IsPathAllowed(p)]

\* operation lists of the requests.  OpsValid is valid on both files and
\* given in ascending order; OpsClash overlaps on the three-line file (and
\* splices without a panic) and is out of bounds on the two-line file (and
\* panics when spliced)
OpsValid == <<Op(1, 1, <<"X">>), Op(2, 2, <<"Y", LF, "Z">>)>>
OpsClash == <<Op(2, 3, <<"X">>), Op(3, 3, <<"Y">>)>>

FileEntry(p, o, b) == [Path |-> p, Operations |-> o, CreateBackup |-> b]

FileEntries ==
    { FileEntry(PA, OpsValid, TRUE), FileEntry(PA, OpsClash, FALSE),
      FileEntry(PB, OpsValid, TRUE), FileEntry(PB, OpsValid, FALSE),
      FileEntry(PB, OpsClash, FALSE), FileEntry(PX, OpsValid, TRUE) }

\* longest file list of an edit_multiple_files request
MaxFiles == 2

\* a batch of three files: one outside the sandbox, one whose operations
\* are out of bounds, one that is valid
ThreeFiles ==
    <<FileEntry(PX, OpsValid, TRUE), FileEntry(PB, OpsClash, FALSE),
      FileEntry(PA, OpsValid, TRUE)>>

FileLists == UNION { [1..n -> FileEntries] : n \in 1..MaxFiles } \cup {ThreeFiles}

EditMultipleFilesRequests ==
    { [kind |-> "EditMultipleFiles", files |-> f, atomic |-> a, dryRun |-> d,
       continueOnError |-> c, validateAll |-> v] :
        f \in FileLists, a \in BOOLEAN, d \in BOOLEAN, c \in BOOLEAN, v \in BOOLEAN }

EditFileRequests ==
    { [kind |-> "EditFile", path |-> e.Path, operations |-> e.Operations,
       createBackup |-> e.CreateBackup, validateOperations |-> v,
       showPreview |-> s, atomic |-> a] :
        e \in FileEntries, v \in BOOLEAN, s \in BOOLEAN, a \in BOOLEAN }

EditBlockRequests ==
    { [kind |-> "EditBlock", path |-> p, startLine |-> l[1], endLine |-> l[2],
       replacement |-> <<"X", LF, "Y">>, createBackup |-> b, validateSyntax |-> v] :
        p \in Paths, l \in {<<1, 1>>, <<2, 3>>, <<0, 1>>, <<2, 1>>},
        b \in BOOLEAN, v \in BOOLEAN }

InsMenu ==
    { <<Ins(1, <<"I">>, TRUE)>>,
      <<Ins(1, <<"I">>, FALSE), Ins(2, <<"J", LF, "K">>, TRUE)>>,
      <<Ins(9, <<"I">>, TRUE)>>,
      <<Ins(3, <<"I">>, TRUE)>> }

InsertTextRequests ==
    { [kind |-> "InsertText", path |-> p, insertions |-> i, createBackup |-> b,
       adjustLineNumbers |-> j] :
        p \in Paths, i \in InsMenu, b \in BOOLEAN, j \in BOOLEAN }

ReplaceTextRequests ==
    { [kind |-> "ReplaceText", path |-> p, find |-> f, replace |-> <<"R">>,
       regex |-> x, caseSensitive |-> c, wholeWord |-> FALSE,
       maxReplacements |-> m, createBackup |-> b] :
        p \in Paths, f \in {<<"A">>, <<>>}, x \in BOOLEAN, c \in BOOLEAN,
        m \in {-1, 0, 1}, b \in BOOLEAN }

NoOutcome == [kind |-> "none", what |-> "none", at |-> 0]
Returned(kind, what, at) == [kind |-> kind, what |-> what, at |-> at]

Ev(op, path, ok, ts) == [op |-> op, path |-> path, ok |-> ok, ts |-> ts]
ErrEntry(kind, i, v) == [kind |-> kind, file |-> i, v |-> v]

IOOutcomes == {"ok", "readfail", "backupfail", "writefail"}

IdleFn == [name |-> "none", lines |-> <<>>, ops |-> <<>>, inLines |-> <<>>,
           inOps |-> <<>>, out |-> Ok]

Init ==
    /\ disk = InitDisk
    /\ backups = [n \in BackupNames |-> NoFile]
    /\ clock = 0
    /\ req = NoReq
    /\ pc = "idle"
    /\ idx = 0
    /\ buf = <<>>
    /\ results = <<>>
    /\ errors = <<>>
    /\ outcome = NoOutcome
    /\ pre = [disk |-> disk, backups |-> backups]
    /\ log = <<>>
    /\ fn = IdleFn

\* time.Now().Unix() as CreateBackup reads it: any value from the last one
\* read up to the bound (the clock never runs backwards)
Now == clock..MaxClock

---------------------------------------------------------------------------
(* HandleEditMultipleFiles *)

\* the request arrives: flags parsed, results and errors empty
BatchStart(r) ==
    /\ pc = "idle"
    /\ pc' = IF r.validateAll \/ r.atomic THEN "prepass" ELSE "process"
    /\ idx' = 1
    /\ results' = <<>>
    /\ errors' = <<>>
    /\ pre' = [disk |-> disk, backups |-> backups]
    /\ log' = <<>>
    /\ UNCHANGED <<disk, backups, clock, buf, outcome, fn>>

HandleEditMultipleFiles(r) == req' = r /\ BatchStart(r)

\* what the pre-pass finds for one file: the first failing check
PrepassFinding(allowed, readOk, verdict) ==
    IF ~allowed THEN "notallowed"
    ELSE IF ~readOk THEN "unreadable"
    ELSE IF verdict.kind # "ok" THEN "invalid"
    ELSE "none"

\* a pre-pass that never returns early
PrepassAborts_Never(atomic, finding) == FALSE

\* "if atomic { return mcp.NewToolResultError(...) }" of the pre-pass
PrepassAborts(atomic, finding) == atomic /\ finding # "none"

\* one iteration of the pre-pass loop (validateAll || atomic), with the
\* check after the loop when it was the last one
PrepassWith(r) ==
    /\ pc = "prepass"
    /\ \E readOk \in BOOLEAN :
        LET i == idx
            fileReq == r.files[i]
            allowed == PathAllowed[fileReq.Path]
            lines == SplitLines(disk[fileReq.Path].content)
            verdict == ValidateEditOperations(lines, fileReq.Operations)
            finding == PrepassFinding(allowed, readOk, verdict)
            errs == IF finding # "none"
                    THEN Append(errors, ErrEntry(finding, i,
                                  IF finding = "invalid" THEN verdict ELSE Ok))
                    ELSE errors
            last == (i = Len(r.files))
        IN  /\ (~allowed => readOk)
            /\ log' = log \o <<Ev("check", fileReq.Path, allowed, 0)>>
                          \o (IF allowed THEN <<Ev("read", fileReq.Path, readOk, 0)>> ELSE <<>>)
                          \o (IF allowed /\ readOk
                              THEN <<Ev("validate", fileReq.Path, verdict.kind = "ok", 0)>>
                              ELSE <<>>)
            /\ IF PrepassAborts(r.atomic, finding)
               THEN /\ outcome' = Returned("error", finding, i)
                    /\ pc' = "done"
                    /\ UNCHANGED <<errors, idx>>
               ELSE /\ errors' = errs
                    /\ IF last /\ r.atomic /\ Len(errs) > 0
                       THEN /\ outcome' = Returned("error", "validation", 0)
                            /\ pc' = "done"
                            /\ idx' = idx
                       ELSE /\ outcome' = outcome
                            /\ pc' = IF last THEN "process" ELSE "prepass"
                            /\ idx' = IF last THEN 1 ELSE i + 1
    /\ UNCHANGED <<disk, backups, clock, buf, results, pre, fn>>

Prepass == PrepassWith(req) /\ UNCHANGED req

\* a processing loop that backs up before it looks at dry_run
BackupAttempted_InDryRun(allowed, io, dryRun, createBackup) ==
    allowed /\ io # "readfail" /\ createBackup

\* whether an iteration of the processing loop reaches CreateBackup: after
\* the path check, the read and the dry-run "continue"
BackupAttempted(allowed, io, dryRun, createBackup) ==
    allowed /\ io # "readfail" /\ ~dryRun /\ createBackup

\* how far one iteration of the processing loop gets: the path check, the
\* read, the dry-run preview, the backup, the splices, the write
ProcessStage(allowed, io, dryRun, attempted, panics) ==
    IF ~allowed THEN "notallowed"
    ELSE IF io = "readfail" THEN "readfail"
    ELSE IF dryRun THEN "preview"
    ELSE IF attempted /\ io = "backupfail" THEN "backupfail"
    ELSE IF panics THEN "panic"
    ELSE IF io = "writefail" THEN "writefail"
    ELSE "success"

FailStages == {"notallowed", "readfail", "backupfail", "writefail"}

\* a loop that looks at continue_on_error before it looks at atomic
AfterFailure_FlagFirst(atomic, continueOnError) ==
    IF continueOnError THEN "continue"
    ELSE IF atomic THEN "return" ELSE "break"

\* what follows a failed file: "if atomic { return error }", then the error
\* is appended and "if !continueOnError { break }", else "continue"
AfterFailure(atomic, continueOnError) ==
    IF atomic THEN "return"
    ELSE IF continueOnError THEN "continue" ELSE "break"

\* one iteration of the processing loop, with the result preparation after
\* the loop when it was the last one or the loop breaks
ProcessWith(r) ==
    /\ pc = "process"
    /\ LET i == idx
           fileReq == r.files[i]
           path == fileReq.Path
           allowed == PathAllowed[path]
           lines == SplitLines(disk[path].content)
           res == EditMultipleFilesResult(lines, fileReq.Operations)
           panics == IF r.dryRun THEN PreviewPanics(lines, fileReq.Operations)
                     ELSE res.panic
       IN
       \E io \in IOOutcomes, now \in Now :
        LET attempted == BackupAttempted(allowed, io, r.dryRun, fileReq.CreateBackup)
            stage == ProcessStage(allowed, io, r.dryRun, attempted, panics)
            backedUp == attempted /\ io # "backupfail"
            failed == stage \in FailStages
            last == (i = Len(r.files))
            after == AfterFailure(r.atomic, r.continueOnError)
            stop == stage = "panic" \/ (failed /\ after = "return")
            brk == failed /\ after = "break"
            finished == ~stop /\ (brk \/ last)
        IN  /\ (io = "readfail" => allowed)
            /\ (io = "backupfail" => attempted)
            /\ (io = "writefail" => allowed /\ ~r.dryRun /\ ~res.panic)
            /\ (now # clock => attempted)
            /\ clock' = now
            /\ backups' = IF backedUp
                          THEN CreateBackup(backups, path, now, disk[path].content)
                          ELSE backups
            /\ disk' = IF stage = "success"
                       THEN [disk EXCEPT ![path] = File(res.text)]
                       ELSE disk
            /\ results' =
                 IF stage = "preview"
                 THEN Append(results, [kind |-> "preview", file |-> i,
                                       preview |-> GenerateEditPreview(lines, fileReq.Operations)])
                 ELSE IF stage = "success"
                 THEN Append(results, [kind |-> "success", file |-> i,
                                       preview |-> <<>>])
                 ELSE results
            /\ errors' = IF failed /\ after # "return"
                         THEN Append(errors, ErrEntry(stage, i, Ok))
                         ELSE errors
            /\ outcome' = IF stage = "panic" THEN Returned("panic", "panic", i)
                          ELSE IF stop THEN Returned("error", stage, i)
                          ELSE IF finished
                          THEN Returned("text", IF r.dryRun THEN "dryrun" ELSE "batch", 0)
                          ELSE outcome
            /\ pc' = IF stop \/ finished THEN "done" ELSE "process"
            /\ idx' = IF stop \/ finished THEN idx ELSE i + 1
            /\ log' = log \o <<Ev("check", path, allowed, 0)>>
                          \o (IF allowed THEN <<Ev("read", path, io # "readfail", 0)>> ELSE <<>>)
                          \o (IF attempted
                              THEN <<Ev("backup", path, io # "backupfail", now)>>
                              ELSE <<>>)
                          \o (IF stage = "success" THEN <<Ev("write", path, TRUE, 0)>>
                              ELSE IF stage = "writefail" THEN <<Ev("write", path, FALSE, 0)>>
                              ELSE <<>>)
    /\ UNCHANGED <<buf, pre, fn>>

Process == ProcessWith(req) /\ UNCHANGED req

---------------------------------------------------------------------------
(* HandleEditFile *)

\* a handler that does not look at show_preview
EditFileStage_NoPreview(allowed, io, verdict, showPreview, createBackup, previewPanics) ==
    IF ~allowed THEN "notallowed"
    ELSE IF io = "readfail" THEN "readfail"
    ELSE IF verdict.kind # "ok" THEN "invalid"
    ELSE IF createBackup /\ io = "backupfail" THEN "backupfail"
    ELSE "apply"

\* how far HandleEditFile gets before its apply-and-write part: the path
\* check, the read, the validation, the preview, the backup
EditFileStage(allowed, io, verdict, showPreview, createBackup, previewPanics) ==
    IF ~allowed THEN "notallowed"
    ELSE IF io = "readfail" THEN "readfail"
    ELSE IF verdict.kind # "ok" THEN "invalid"
    ELSE IF showPreview THEN (IF previewPanics THEN "panic" ELSE "preview")
    ELSE IF createBackup /\ io = "backupfail" THEN "backupfail"
    ELSE "apply"

\* HandleEditFile from the request to the backup
HandleEditFile(r) ==
    /\ pc = "idle"
    /\ \E io \in {"ok", "readfail", "backupfail"}, now \in Now :
        LET path == r.path
            allowed == PathAllowed[path]
            lines == SplitLines(disk[path].content)
            verdict == IF r.validateOperations
                       THEN ValidateEditOperations(lines, r.operations)
                       ELSE Ok
            sortedOps == SortOperationsByLine(r.operations)
            stage == EditFileStage(allowed, io, verdict, r.showPreview, r.createBackup,
                                   PreviewPanics(lines, sortedOps))
            attempted == r.createBackup /\ stage \in {"backupfail", "apply"}
            backedUp == attempted /\ io # "backupfail"
            empty == (~r.atomic /\ Len(sortedOps) = 0)
        IN  /\ (io = "readfail" => allowed)
            /\ (io = "backupfail" => attempted)
            /\ (now # clock => attempted)
            /\ clock' = now
            /\ req' = r
            /\ pre' = [disk |-> disk, backups |-> backups]
            /\ backups' = IF backedUp
                          THEN CreateBackup(backups, path, now, disk[path].content)
                          ELSE backups
            /\ results' = IF stage = "preview"
                          THEN <<[kind |-> "preview", file |-> 1,
                                  preview |-> GenerateEditPreview(lines, sortedOps)]>>
                          ELSE <<>>
            /\ errors' = IF stage = "invalid" THEN <<ErrEntry("invalid", 1, verdict)>> ELSE <<>>
            /\ outcome' = IF stage = "apply"
                          THEN (IF empty THEN Returned("text", "success", 0) ELSE NoOutcome)
                          ELSE IF stage = "preview" THEN Returned("text", "preview", 0)
                          ELSE IF stage = "panic" THEN Returned("panic", "panic", 0)
                          ELSE Returned("error", stage, 0)
            /\ pc' = IF stage = "apply" /\ ~empty
                     THEN (IF r.atomic THEN "efatomic" ELSE "efloop")
                     ELSE "done"
            /\ idx' = 1
            /\ buf' = IF stage = "apply" THEN lines ELSE <<>>
            /\ log' = <<Ev("check", path, allowed, 0)>>
                        \o (IF allowed THEN <<Ev("read", path, io # "readfail", 0)>> ELSE <<>>)
                        \o (IF allowed /\ io # "readfail" /\ r.validateOperations
                            THEN <<Ev("validate", path, verdict.kind = "ok", 0)>> ELSE <<>>)
                        \o (IF attempted THEN <<Ev("backup", path, io # "backupfail", now)>>
                            ELSE <<>>)
    /\ UNCHANGED <<disk, fn>>

\* the atomic branch: every operation spliced, then one os.WriteFile
EditFileAtomic ==
    /\ pc = "efatomic"
    /\ \E writeOk \in BOOLEAN :
        LET res == EditFileResult(buf, req.operations)
        IN  /\ (res.panic => writeOk)
            /\ disk' = IF ~res.panic /\ writeOk
                       THEN [disk EXCEPT ![req.path] = File(res.text)]
                       ELSE disk
            /\ outcome' = IF res.panic THEN Returned("panic", "panic", 0)
                          ELSE IF writeOk THEN Returned("text", "success", 0)
                          ELSE Returned("error", "writefail", 0)
            /\ log' = log \o (IF res.panic THEN <<>>
                              ELSE <<Ev("write", req.path, writeOk, 0)>>)
    /\ pc' = "done"
    /\ UNCHANGED <<backups, clock, req, idx, buf, results, errors, pre, fn>>

\* a loop that goes on after a failed write
StepEnds_IgnoreWriteError(panic, writeOk, last) == panic \/ last

\* whether an iteration of the non-atomic loop is the last one: a panic of
\* the splice, the "return" after a failed write, or the end of sortedOps
StepEnds(panic, writeOk, last) == panic \/ ~writeOk \/ last

\* one iteration of the non-atomic loop: splice sortedOps[idx], write
EditFileStep ==
    /\ pc = "efloop"
    /\ \E writeOk \in BOOLEAN :
        LET sortedOps == SortOperationsByLine(req.operations)
            r == ApplyOperation(buf, sortedOps[idx])
            last == (idx = Len(sortedOps))
        IN  /\ (r.panic => writeOk)
            /\ buf' = IF r.panic THEN buf ELSE r.lines
            /\ disk' = IF ~r.panic /\ writeOk
                       THEN [disk EXCEPT ![req.path] = File(JoinLines(r.lines))]
                       ELSE disk
            /\ outcome' = IF r.panic THEN Returned("panic", "panic", idx)
                          ELSE IF ~writeOk THEN Returned("error", "writefail", idx)
                          ELSE IF last THEN Returned("text", "success", 0)
                          ELSE outcome
            /\ pc' = IF StepEnds(r.panic, writeOk, last) THEN "done" ELSE "efloop"
            /\ idx' = IF StepEnds(r.panic, writeOk, last) THEN idx ELSE idx + 1
            /\ log' = log \o (IF r.panic THEN <<>>
                              ELSE <<Ev("write", req.path, writeOk, 0)>>)
    /\ UNCHANGED <<backups, clock, req, results, errors, pre, fn>>

---------------------------------------------------------------------------
(* HandleInsertText and HandleReplaceText *)

\* how far HandleInsertText and HandleReplaceText get: the path check, the
\* read, the backup, the text function ("ok", "error" or "panic"), the write
SimpleStage(allowed, io, createBackup, applied) ==
    IF ~allowed THEN "notallowed"
    ELSE IF io = "readfail" THEN "readfail"
    ELSE IF createBackup /\ io = "backupfail" THEN "backupfail"
    ELSE IF applied # "ok" THEN applied
    ELSE IF io = "writefail" THEN "writefail"
    ELSE "success"

\* the part HandleInsertText and HandleReplaceText share, given the result
\* of the text function on the content read
SimpleEdit(r, applied, newContent) ==
    /\ pc = "idle"
    /\ \E io \in IOOutcomes, now \in Now :
        LET path == r.path
            allowed == PathAllowed[path]
            stage == SimpleStage(allowed, io, r.createBackup, applied)
            attempted == allowed /\ io # "readfail" /\ r.createBackup
            backedUp == attempted /\ io # "backupfail"
        IN  /\ (io = "readfail" => allowed)
            /\ (io = "backupfail" => attempted)
            /\ (io = "writefail" => allowed /\ applied = "ok")
            /\ (now # clock => attempted)
            /\ clock' = now
            /\ req' = r
            /\ pre' = [disk |-> disk, backups |-> backups]
            /\ backups' = IF backedUp
                          THEN CreateBackup(backups, path, now, disk[path].content)
                          ELSE backups
            /\ disk' = IF stage = "success"
                       THEN [disk EXCEPT ![path] = File(newContent)]
                       ELSE disk
            /\ outcome' = IF stage = "success" THEN Returned("text", "success", 0)
                          ELSE IF stage = "panic" THEN Returned("panic", "panic", 0)
                          ELSE Returned("error", stage, 0)
            /\ log' = <<Ev("check", path, allowed, 0)>>
                        \o (IF allowed THEN <<Ev("read", path, io # "readfail", 0)>> ELSE <<>>)
                        \o (IF attempted THEN <<Ev("backup", path, io # "backupfail", now)>>
                            ELSE <<>>)
                        \o (IF stage = "success" THEN <<Ev("write", path, TRUE, 0)>>
                            ELSE IF stage = "writefail" THEN <<Ev("write", path, FALSE, 0)>>
                            ELSE <<>>)
    /\ pc' = "done"
    /\ idx' = 0
    /\ results' = <<>>
    /\ errors' = <<>>
    /\ UNCHANGED <<buf, fn>>

HandleInsertText(r) ==
    LET a == ApplyTextInsertions(disk[r.path].content, r.insertions, r.adjustLineNumbers)
    IN  SimpleEdit(r, a.kind, a.text)

HandleReplaceText(r) ==
    LET a == ReplaceText(disk[r.path].content, r.find, r.replace, r.regex,
                         r.caseSensitive, r.wholeWord, r.maxReplacements)
    IN  SimpleEdit(r, IF a.err THEN "error" ELSE "ok", a.text)

---------------------------------------------------------------------------
(* HandleEditBlock *)

\* ValidateLineRange: the first failing check
ValidateLineRange(startLine, endLine, totalLines) ==
    IF startLine < 1 THEN "startpositive"
    ELSE IF endLine < 1 THEN "endpositive"
    ELSE IF startLine > totalLines THEN "startexceeds"
    ELSE IF endLine > totalLines THEN "endexceeds"
    ELSE IF startLine > endLine THEN "order"
    ELSE "ok"

\* filepath.Ext: the suffix of the last element from its last dot on
Ext(filePath) ==
    LET dots == {i \in 1..Len(filePath) :
                    /\ filePath[i] = "."
                    /\ \A j \in i..Len(filePath) : filePath[j] # Sep}
    IN  IF dots = {} THEN <<>>
        ELSE SubSeq(filePath, CHOOSE i \in dots : \A j \in dots : j <= i, Len(filePath))

\* textExtensions of IsTextFile
TextExtensions ==
    {<<".", "t", "x", "t">>, <<".", "m", "d">>,
     <<".", "j", "s", "o", "n">>, <<".", "x", "m", "l">>,
     <<".", "y", "a", "m", "l">>, <<".", "y", "m", "l">>,
     <<".", "g", "o">>, <<".", "p", "y">>, <<".", "j", "s">>,
     <<".", "t", "s">>, <<".", "j", "a", "v", "a">>, <<".", "c">>,
     <<".", "c", "p", "p">>, <<".", "h">>, <<".", "h", "p", "p">>,
     <<".", "c", "s">>, <<".", "p", "h", "p">>, <<".", "r", "b">>,
     <<".", "r", "s">>, <<".", "k", "t">>, <<".", "h", "t", "m", "l">>,
     <<".", "c", "s", "s">>, <<".", "s", "c", "s", "s">>,
     <<".", "s", "a", "s", "s">>, <<".", "l", "e", "s", "s">>,
     <<".", "s", "q", "l">>, <<".", "s", "h">>, <<".", "b", "a", "t">>,
     <<".", "p", "s", "1">>,
     <<".", "d", "o", "c", "k", "e", "r", "f", "i", "l", "e">>,
     <<".", "c", "f", "g">>, <<".", "c", "o", "n", "f">>,
     <<".", "i", "n", "i">>, <<".", "t", "o", "m", "l">>,
     <<".", "p", "r", "o", "p", "e", "r", "t", "i", "e", "s">>}

IsTextFile(filePath) == ToLower(Ext(filePath)) \in TextExtensions

\* ValidateFileSyntax: TRUE when it returns nil
ValidateFileSyntax(filePath, content) ==
    filePath # <<>> /\ content # <<>> /\ IsTextFile(filePath)

\* a handler that reads the file before it asks about the path
EditBlockStage_Unchecked(allowed, io, range, createBackup, panics, syntaxOk) ==
    IF io = "readfail" THEN "readfail"
    ELSE IF range # "ok" THEN "invalid"
    ELSE IF createBackup /\ io = "backupfail" THEN "backupfail"
    ELSE IF panics THEN "panic"
    ELSE IF ~syntaxOk THEN "syntax"
    ELSE IF io = "writefail" THEN "writefail"
    ELSE "success"

\* how far HandleEditBlock gets: the path check, the read, the line range,
\* the backup, the splice, the syntax check, the write
EditBlockStage(allowed, io, range, createBackup, panics, syntaxOk) ==
    IF ~allowed THEN "notallowed"
    ELSE IF io = "readfail" THEN "readfail"
    ELSE IF range # "ok" THEN "invalid"
    ELSE IF createBackup /\ io = "backupfail" THEN "backupfail"
    ELSE IF panics THEN "panic"
    ELSE IF ~syntaxOk THEN "syntax"
    ELSE IF io = "writefail" THEN "writefail"
    ELSE "success"

HandleEditBlock(r) ==
    /\ pc = "idle"
    /\ \E io \in IOOutcomes, now \in Now :
        LET path == r.path
            allowed == PathAllowed[path]
            lines == SplitLines(disk[path].content)
            range == ValidateLineRange(r.startLine, r.endLine, Len(lines))
            a == ApplyOperation(lines, Op(r.startLine, r.endLine, r.replacement))
            newContent == JoinLines(a.lines)
            syntaxOk == r.validateSyntax => ValidateFileSyntax(path, newContent)
            stage == EditBlockStage(allowed, io, range, r.createBackup, a.panic, syntaxOk)
            reached == stage \notin {"notallowed", "readfail", "invalid"}
            attempted == reached /\ r.createBackup
            backedUp == attempted /\ io # "backupfail"
        IN  /\ (io = "readfail" => allowed)
            /\ (io = "backupfail" => attempted)
            /\ (io = "writefail" => stage = "writefail")
            /\ (now # clock => attempted)
            /\ clock' = now
            /\ req' = r
            /\ pre' = [disk |-> disk, backups |-> backups]
            /\ backups' = IF backedUp
                          THEN CreateBackup(backups, path, now, disk[path].content)
                          ELSE backups
            /\ disk' = IF stage = "success"
                       THEN [disk EXCEPT ![path] = File(newContent)]
                       ELSE disk
            /\ outcome' = IF stage = "success" THEN Returned("text", "success", 0)
                          ELSE IF stage = "panic" THEN Returned("panic", "panic", 0)
                          ELSE Returned("error", stage, 0)
            /\ log' = <<Ev("check", path, allowed, 0)>>
                        \o (IF stage # "notallowed"
                            THEN <<Ev("read", path, io # "readfail", 0)>> ELSE <<>>)
                        \o (IF stage \notin {"notallowed", "readfail"}
                            THEN <<Ev("validate", path, range = "ok", 0)>> ELSE <<>>)
                        \o (IF attempted THEN <<Ev("backup", path, io # "backupfail", now)>>
                            ELSE <<>>)
                        \o (IF stage = "success" THEN <<Ev("write", path, TRUE, 0)>>
                            ELSE IF stage = "writefail" THEN <<Ev("write", path, FALSE, 0)>>
                            ELSE <<>>)
    /\ pc' = "done"
    /\ idx' = 0
    /\ results' = <<>>
    /\ errors' = <<>>
    /\ UNCHANGED <<buf, fn>>

\* a request arrives while the server is idle
Receive ==
    /\ pc = "idle"
    /\ \/ \E r \in EditMultipleFilesRequests : HandleEditMultipleFiles(r)
       \/ \E r \in EditFileRequests : HandleEditFile(r)
       \/ \E r \in EditBlockRequests : HandleEditBlock(r)
       \/ \E r \in InsertTextRequests : HandleInsertText(r)
       \/ \E r \in ReplaceTextRequests : HandleReplaceText(r)

Next ==
    \/ Receive
    \/ Prepass
    \/ Process
    \/ EditFileAtomic
    \/ EditFileStep

Spec == Init /\ [][Next]_vars

---------------------------------------------------------------------------
(* SpecOps: ValidateEditOperations and the apply-and-join part of the two  *)
(* edit handlers, called on every bounded input                            *)

EngineIdle ==
    /\ disk = InitDisk
    /\ backups = [n \in BackupNames |-> NoFile]
    /\ clock = 0
    /\ req = NoReq
    /\ pc = "idle"
    /\ idx = 0
    /\ buf = <<>>
    /\ results = <<>>
    /\ errors = <<>>
    /\ outcome = NoOutcome
    /\ pre = [disk |-> disk, backups |-> backups]
    /\ log = <<>>

engineVars == <<disk, backups, clock, req, pc, idx, buf, results, errors, outcome, pre, log>>

InitOps ==
    /\ EngineIdle
    /\ \E n \in 1..MaxLines :
        fn = [name |-> "input", lines |-> Buffer(n), ops |-> <<>>,
              inLines |-> Buffer(n), inOps |-> <<>>, out |-> Ok]

\* the caller adds one more operation to the request
AddOperation ==
    /\ fn.name = "input"
    /\ Len(fn.ops) < MaxOps
    /\ \E s \in 0..(Len(fn.lines) + 1), e \in 0..(Len(fn.lines) + 1) :
        /\ e >= s - 1
        /\ LET o == Append(fn.ops, Op(s, e, ReplText(Len(fn.ops) + 1)))
           IN  fn' = [fn EXCEPT !.ops = o, !.inOps = o]
    /\ UNCHANGED engineVars

CallValidate ==
    /\ fn.name = "input"
    /\ fn' = [fn EXCEPT !.name = "validate",
                        !.out = ValidateEditOperations(fn.lines, fn.ops)]
    /\ UNCHANGED engineVars

CallEditFile ==
    /\ fn.name = "input"
    /\ fn' = [fn EXCEPT !.name = "editfile", !.out = EditFileResult(fn.lines, fn.ops)]
    /\ UNCHANGED engineVars

CallEditMultipleFiles ==
    /\ fn.name = "input"
    /\ fn' = [fn EXCEPT !.name = "editmulti",
                        !.out = EditMultipleFilesResult(fn.lines, fn.ops)]
    /\ UNCHANGED engineVars

NextOps ==
    \/ AddOperation
    \/ CallValidate
    \/ CallEditFile
    \/ CallEditMultipleFiles

SpecOps == InitOps /\ [][NextOps]_vars

---------------------------------------------------------------------------
(* Properties of the validator and of the splices (SpecOps) *)

\* the range conditions of the specification on one operation
InRange(n, op) ==
    /\ op.StartLine >= 1
    /\ op.EndLine >= 1
    /\ op.StartLine <= op.EndLine
    /\ op.StartLine <= n
    /\ op.EndLine <= n

\* the inclusive ranges of a and b have a line in common
ShareLine(a, b) ==
    \E l \in 0..(MaxLines + 1) :
        /\ a.StartLine <= l /\ l <= a.EndLine
        /\ b.StartLine <= l /\ l <= b.EndLine

AllInRange(lines, operations) ==
    \A i \in 1..Len(operations) : InRange(Len(lines), operations[i])

ValidSet(lines, operations) ==
    /\ AllInRange(lines, operations)
    /\ \A i \in 1..Len(operations), j \in 1..Len(operations) :
        i # j => ~ShareLine(operations[i], operations[j])

RECURSIVE Reference(_, _, _)
\* simultaneous replacement, read off the original buffer from line l on:
\* the line that starts a range gives the split replacement, the other
\* lines of a range give nothing, every other line is kept
Reference(lines, operations, l) ==
    IF l > Len(lines) THEN <<>>
    ELSE LET starting == {i \in 1..Len(operations) : operations[i].StartLine = l}
             covering == {i \in 1..Len(operations) :
                             operations[i].StartLine <= l /\ l <= operations[i].EndLine}
             here == IF starting # {}
                     THEN SplitLines(operations[CHOOSE i \in starting : TRUE].Replacement)
                     ELSE IF covering # {} THEN <<>>
                     ELSE <<lines[l]>>
         IN  here \o Reference(lines, operations, l + 1)

\* C8: validate returns ok exactly when every operation is in range and no
\* two operations of the list share a line, whatever the number and the
\* order of the operations, and it leaves the buffer and the list unchanged
ValidateOkIffValidSet ==
    fn.name = "validate" =>
        /\ (fn.out.kind = "ok") <=> ValidSet(fn.lines, fn.ops)
        /\ fn.lines = fn.inLines
        /\ fn.ops = fn.inOps

\* validate was called on a list whose last pair only overlaps, and on a
\* list whose last operation only is out of bounds
ValidateOkIffValidSetWitness ==
    /\ fn.name = "validate"
    /\ Len(fn.ops) = MaxOps
    /\ fn.out.kind = "overlap"
    /\ fn.out.i = MaxOps - 1
    /\ fn.out.j = MaxOps
    /\ fn.ops[MaxOps].EndLine > fn.ops[MaxOps].StartLine

\* C9: on operations that are each in range, the overlap error is returned
\* exactly when some pair satisfies !(a.end < b.start || b.end < a.start),
\* and the two positions it names are different operations sharing a line
OverlapErrorIffPairOverlaps ==
    (fn.name = "validate" /\ AllInRange(fn.lines, fn.ops)) =>
        /\ (fn.out.kind = "overlap") <=>
              \E i \in 1..Len(fn.ops), j \in 1..Len(fn.ops) :
                  /\ i # j
                  /\ ~(fn.ops[i].EndLine < fn.ops[j].StartLine
                         \/ fn.ops[j].EndLine < fn.ops[i].StartLine)
        /\ fn.out.kind = "overlap" =>
              /\ fn.out.i \in 1..Len(fn.ops)
              /\ fn.out.j \in 1..Len(fn.ops)
              /\ fn.out.i # fn.out.j
              /\ ShareLine(fn.ops[fn.out.i], fn.ops[fn.out.j])

\* two in-range operations that share only a boundary line were refused
OverlapErrorIffPairOverlapsWitness ==
    /\ fn.name = "validate"
    /\ AllInRange(fn.lines, fn.ops)
    /\ fn.out.kind = "overlap"
    /\ fn.ops[fn.out.i].StartLine < fn.ops[fn.out.i].EndLine
    /\ fn.ops[fn.out.i].EndLine = fn.ops[fn.out.j].StartLine
    /\ fn.ops[fn.out.j].StartLine < fn.ops[fn.out.j].EndLine

\* C10: for a valid operation set the content written by EditFile and by
\* EditMultipleFiles is the join of the simultaneous replacement
WrittenBufferIsReference ==
    (fn.name \in {"editfile", "editmulti"} /\ ValidSet(fn.lines, fn.ops)) =>
        /\ ~fn.out.panic
        /\ fn.out.text = JoinLines(Reference(fn.lines, fn.ops, 1))

\* two operations given in ascending order, the second one with a
\* replacement of two lines, were applied by EditMultipleFiles
WrittenBufferIsReferenceWitness ==
    /\ fn.name = "editmulti"
    /\ ValidSet(fn.lines, fn.ops)
    /\ Len(fn.ops) >= 2
    /\ fn.ops[1].StartLine < fn.ops[2].StartLine
    /\ fn.ops[1].StartLine < fn.ops[1].EndLine
    /\ ~fn.out.panic
    /\ fn.out.text # JoinLines(fn.lines)

---------------------------------------------------------------------------
(* Properties of the engine (Spec) *)

IsBatch == req.kind = "EditMultipleFiles"

\* a write of path p succeeded during the request
Wrote(p) ==
    \E k \in 1..Len(log) : log[k].op = "write" /\ log[k].ok /\ log[k].path = p

\* no os.WriteFile of a target and no CreateBackup was called
NoWriteNoBackup ==
    \A k \in 1..Len(log) : log[k].op \notin {"write", "backup"}

\* entry i is the only entry of the batch for its path
ListedOnce(i) ==
    \A j \in 1..Len(req.files) : j # i => req.files[j].Path # req.files[i].Path

RECURSIVE EditedDisk(_, _, _)
\* the file system in which every entry of the batch from the k-th on has
\* been applied in full, in request order
EditedDisk(d, files, k) ==
    IF k > Len(files) THEN d
    ELSE LET p == files[k].Path
             r == JoinLines(Reference(SplitLines(d[p].content), files[k].Operations, 1))
         IN  EditedDisk([d EXCEPT ![p] = File(r)], files, k + 1)

\* C1: when an atomic batch that is not a dry run ends, either every listed
\* file holds its pre-request content or every listed file holds its fully
\* edited content
AtomicAllOrNothing ==
    (pc = "done" /\ IsBatch /\ req.atomic /\ ~req.dryRun) =>
        \/ \A i \in 1..Len(req.files) :
              disk[req.files[i].Path] = pre.disk[req.files[i].Path]
        \/ \A i \in 1..Len(req.files) :
              disk[req.files[i].Path] = EditedDisk(pre.disk, req.files, 1)[req.files[i].Path]

\* an iteration of the pre-pass of an atomic batch finds a path that is not
\* allowed, a file that cannot be read or operations that are not valid
PrepassFinds ==
    /\ pc = "prepass"
    /\ req.atomic
    /\ \E k \in (Len(log) + 1)..Len(log') : ~log'[k].ok

\* C2: a pre-pass failure of an atomic batch ends the request with an error,
\* with every file and every backup as before the request and without any
\* write or backup call, at whatever position the failing file is
AtomicPrepassAbortsWithoutWrites ==
    [][PrepassFinds =>
         /\ pc' = "done"
         /\ outcome'.kind = "error"
         /\ disk' = pre.disk
         /\ backups' = pre.backups
         /\ \A k \in 1..Len(log') : log'[k].op \notin {"write", "backup"}]_vars

\* an atomic batch of two files ended in the pre-pass on the invalid
\* operations of its second file, the first file being valid
AtomicPrepassAbortsWithoutWritesWitness ==
    /\ pc = "done"
    /\ IsBatch
    /\ req.atomic
    /\ ~req.dryRun
    /\ Len(req.files) = 2
    /\ req.files[1].Path # req.files[2].Path
    /\ outcome = Returned("error", "invalid", 2)
    /\ disk = pre.disk

\* C3: a dry-run batch writes no file and creates no backup, whatever the
\* other flags, and its results are previews only
DryRunWritesNothing ==
    (IsBatch /\ req.dryRun) =>
        /\ disk = pre.disk
        /\ backups = pre.backups
        /\ NoWriteNoBackup
        /\ \A k \in 1..Len(results) : results[k].kind = "preview"

\* a non-atomic dry run over two readable files, the first one with
\* create_backup, returned its two previews
DryRunWritesNothingWitness ==
    /\ pc = "done"
    /\ IsBatch
    /\ req.dryRun
    /\ ~req.atomic
    /\ Len(req.files) = 2
    /\ req.files[1].CreateBackup
    /\ Len(results) = 2
    /\ outcome = Returned("text", "dryrun", 0)

\* C4: a file whose operations are not valid on its content is not written
\* and keeps its content, in EditMultipleFiles under every combination of
\* its flags and in EditFile with validate_operations, which also returns
\* the error
ValidationErrorIsFatal ==
    /\ (pc = "done" /\ IsBatch) =>
          \A i \in 1..Len(req.files) :
              LET p == req.files[i].Path
              IN  (/\ ListedOnce(i)
                   /\ PathAllowed[p]
                   /\ ~ValidSet(SplitLines(pre.disk[p].content), req.files[i].Operations))
                  => /\ ~Wrote(p)
                     /\ disk[p] = pre.disk[p]
    /\ (/\ pc = "done"
        /\ req.kind = "EditFile"
        /\ req.validateOperations
        /\ PathAllowed[req.path]
        /\ ~ValidSet(SplitLines(pre.disk[req.path].content), req.operations))
       => /\ disk[req.path] = pre.disk[req.path]
          /\ outcome.kind = "error"

\* C5: when a requested backup of a path could not be created, the request
\* writes nothing to that path
FailedBackupPreventsWrite ==
    pc = "done" =>
        \A k \in 1..Len(log) :
            (log[k].op = "backup" /\ ~log[k].ok) =>
                /\ ~Wrote(log[k].path)
                /\ disk[log[k].path] = pre.disk[log[k].path]

\* C6: after a request that backed up and wrote a path, with create_backup
\* on every entry of that path, a backup made by the request holds the
\* content the path had before the request's first write to it
BackupHoldsOriginal ==
    pc = "done" =>
        \A p \in Paths :
            (/\ Wrote(p)
             /\ (IsBatch => \A i \in 1..Len(req.files) :
                               (req.files[i].Path = p => req.files[i].CreateBackup))
             /\ \E k \in 1..Len(log) : log[k].op = "backup" /\ log[k].ok /\ log[k].path = p)
            => \E k \in 1..Len(log) :
                  /\ log[k].op = "backup" /\ log[k].ok /\ log[k].path = p
                  /\ backups[<<p, log[k].ts>>] = File(pre.disk[p].content)

\* C7: no step of the engine changes or removes a backup file that exists
ExistingBackupUntouched ==
    [][\A n \in BackupNames : backups[n].exists => backups'[n] = backups[n]]_vars

---------------------------------------------------------------------------
(* Properties of sort-then-splice under reordering (SpecOps) *)

\* the permutations of 1..n
Orders(n) ==
    {p \in [1..n -> 1..n] : \A i \in 1..n, j \in 1..n : i # j => p[i] # p[j]}

\* the operation list given in the order p
Permuted(operations, p) == [i \in 1..Len(operations) |-> operations[p[i]]]

\* C11: for a valid operation set, sorting by StartLine descending and
\* splicing gives the same content for every order of the operations in
\* the request
ApplyIsOrderIndependent ==
    (fn.name = "editfile" /\ ValidSet(fn.lines, fn.ops)) =>
        \A p \in Orders(Len(fn.ops)) :
            EditFileResult(fn.lines, Permuted(fn.ops, p)) = fn.out

\* a valid set of MaxOps operations given in ascending order was applied
ApplyIsOrderIndependentWitness ==
    /\ fn.name = "editfile"
    /\ ValidSet(fn.lines, fn.ops)
    /\ Len(fn.ops) = MaxOps
    /\ \A i \in 1..(MaxOps - 1) : fn.ops[i].StartLine < fn.ops[i + 1].StartLine
    /\ ~fn.out.panic

---------------------------------------------------------------------------
(* SpecIns: ApplyTextInsertions called on every bounded input.             *)
(* fn.content is a file of 1..MaxLines distinct lines, fn.ins a list of at *)
(* most MaxIns insertions with line numbers in 0..lines + 2; the insertion *)
(* at request position i carries the content InsText(i), so that every     *)
(* inserted line can be told from the original lines and from the others.  *)

InsText(i) ==
    CASE i = 1 -> <<"I">>
      [] i = 2 -> <<"J", LF, "K">>
      [] i = 3 -> <<"L">>
      [] OTHER -> <<"M">>

InitIns ==
    /\ EngineIdle
    /\ \E n \in 1..MaxLines :
        fn = [name |-> "insertions", content |-> JoinLines(Buffer(n)), ins |-> <<>>,
              out |-> [kind |-> "ok", text |-> <<>>]]

\* the caller adds one more insertion to the request
AddInsertion ==
    /\ fn.name = "insertions"
    /\ Len(fn.ins) < MaxIns
    /\ \E l \in 0..(Len(SplitLines(fn.content)) + 2), b \in BOOLEAN :
        fn' = [fn EXCEPT !.ins = Append(@, Ins(l, InsText(Len(fn.ins) + 1), b))]
    /\ UNCHANGED engineVars

CallApplyTextInsertions ==
    /\ fn.name = "insertions"
    /\ \E adjustLineNumbers \in BOOLEAN :
        fn' = [fn EXCEPT !.name = "ApplyTextInsertions",
                         !.out = ApplyTextInsertions(fn.content, fn.ins, adjustLineNumbers)]
    /\ UNCHANGED engineVars

NextIns ==
    \/ AddInsertion
    \/ CallApplyTextInsertions

SpecIns == InitIns /\ [][NextIns]_vars

---------------------------------------------------------------------------
(* Properties of ApplyTextInsertions (SpecIns) *)

\* position of the original line number l in the buffer r: 0 for l = 0,
\* one past the end for the line after the last one
OriginalAt(r, original, l) ==
    IF l = 0 THEN 0
    ELSE IF l > Len(original) THEN Len(r) + 1
    ELSE CHOOSE i \in 1..Len(r) : r[i] = original[l]

\* the lines c stand together in r, after position lo and before position hi
StandsBetween(r, c, lo, hi) ==
    \E i \in (lo + 1)..(hi - Len(c)) : SubSeq(r, i, i + Len(c) - 1) = c

\* first position of the lines c in r
FirstAt(r, c) ==
    CHOOSE i \in 1..Len(r) :
        /\ i + Len(c) - 1 <= Len(r)
        /\ SubSeq(r, i, i + Len(c) - 1) = c
        /\ \A m \in 1..(i - 1) : SubSeq(r, m, m + Len(c) - 1) # c

NamesExistingLines(original, insertions) ==
    \A k \in 1..Len(insertions) :
        insertions[k].Line >= 1 /\ insertions[k].Line <= Len(original)

\* C12: when every insertion names an existing line, the call succeeds, the
\* original lines are all kept in their order, and the content of each
\* insertion stands between the original line it names and the neighbour
\* of that line: before it for before=true, after it for before=false
InsertionsKeepOriginalLineNumbers ==
    LET original == SplitLines(fn.content)
        r == SplitLines(fn.out.text)
    IN  (fn.name = "ApplyTextInsertions" /\ NamesExistingLines(original, fn.ins)) =>
            /\ fn.out.kind = "ok"
            /\ SelectSeq(r, LAMBDA x : \E l \in 1..Len(original) : original[l] = x) = original
            /\ \A k \in 1..Len(fn.ins) :
                LET c == SplitLines(fn.ins[k].Content)
                    l == fn.ins[k].Line
                IN  IF fn.ins[k].Before
                    THEN StandsBetween(r, c, OriginalAt(r, original, l - 1),
                                       OriginalAt(r, original, l))
                    ELSE StandsBetween(r, c, OriginalAt(r, original, l),
                                       OriginalAt(r, original, l + 1))

\* C13: two insertions that name the same existing line with the same
\* before flag have their contents in the result in request order
InsertionTiesKeepRequestOrder ==
    LET original == SplitLines(fn.content)
        r == SplitLines(fn.out.text)
    IN  (fn.name = "ApplyTextInsertions" /\ NamesExistingLines(original, fn.ins)) =>
            \A i \in 1..Len(fn.ins), j \in 1..Len(fn.ins) :
                (/\ i < j
                 /\ fn.ins[i].Line = fn.ins[j].Line
                 /\ fn.ins[i].Before = fn.ins[j].Before)
                => /\ fn.out.kind = "ok"
                   /\ FirstAt(r, SplitLines(fn.ins[i].Content))
                        < FirstAt(r, SplitLines(fn.ins[j].Content))

---------------------------------------------------------------------------
(* Properties of HandleEditFile (Spec) *)

IsEditFile == req.kind = "EditFile"

\* the number of os.WriteFile calls of the request that succeeded
WritesDone == Cardinality({k \in 1..Len(log) : log[k].op = "write" /\ log[k].ok})

\* C14: an EditFile request with show_preview ends at once; it writes no
\* file and makes no backup, whatever create_backup and atomic are, and
\* when it returns text its only result is the preview of the buffer read
\* and of the sorted operations
PreviewShortCircuits ==
    (IsEditFile /\ req.showPreview) =>
        /\ pc = "done"
        /\ disk = pre.disk
        /\ backups = pre.backups
        /\ NoWriteNoBackup
        /\ outcome.kind = "text" =>
              /\ outcome = Returned("text", "preview", 0)
              /\ results = <<[kind |-> "preview", file |-> 1,
                              preview |-> GenerateEditPreview(
                                              SplitLines(pre.disk[req.path].content),
                                              SortOperationsByLine(req.operations))]>>

\* a non-atomic EditFile request with show_preview and create_backup
\* returned its preview
PreviewShortCircuitsWitness ==
    /\ IsEditFile
    /\ req.showPreview
    /\ req.createBackup
    /\ ~req.atomic
    /\ outcome = Returned("text", "preview", 0)
    /\ Len(results) = 1

\* the content of the request's file with the first m sorted operations
\* applied to the content read
AppliedPrefix(m) ==
    JoinLines(ApplyOperations(SplitLines(pre.disk[req.path].content),
                              SubSeq(SortOperationsByLine(req.operations), 1, m)).lines)

\* C15: an atomic EditFile request calls os.WriteFile at most once, and at
\* every point of the request the file holds its pre-request content or
\* the content with all operations applied
AtomicEditWritesOnce ==
    (IsEditFile /\ req.atomic) =>
        /\ Cardinality({k \in 1..Len(log) : log[k].op = "write"}) <= 1
        /\ \A p \in Paths : p # req.path => disk[p] = pre.disk[p]
        /\ IF WritesDone = 0
           THEN disk[req.path] = pre.disk[req.path]
           ELSE disk[req.path] = File(AppliedPrefix(Len(req.operations)))

\* an atomic EditFile request of two operations has written its file
AtomicEditWritesOnceWitness ==
    /\ IsEditFile
    /\ req.atomic
    /\ pc = "done"
    /\ Len(req.operations) = 2
    /\ WritesDone = 1
    /\ disk[req.path] # pre.disk[req.path]
    /\ outcome = Returned("text", "success", 0)

\* C16: a non-atomic EditFile request writes the file after every
\* operation, in descending start-line order: the file holds the content
\* with as many sorted operations applied as writes succeeded, and a failed
\* write is the last call of the request, which returns the error naming
\* that operation
NonAtomicEditWritesEachStep ==
    (IsEditFile /\ ~req.atomic) =>
        /\ \A p \in Paths : p # req.path => disk[p] = pre.disk[p]
        /\ IF WritesDone = 0
           THEN disk[req.path] = pre.disk[req.path]
           ELSE disk[req.path] = File(AppliedPrefix(WritesDone))
        /\ pc = "efloop" => WritesDone = idx - 1
        /\ outcome = Returned("text", "success", 0) => WritesDone = Len(req.operations)
        /\ \A k \in 1..Len(log) :
              (log[k].op = "write" /\ ~log[k].ok) =>
                  /\ k = Len(log)
                  /\ pc = "done"
                  /\ outcome = Returned("error", "writefail", WritesDone + 1)

\* the write after the second operation failed: the file holds the content
\* written after the first one
NonAtomicEditWritesEachStepWitness ==
    /\ IsEditFile
    /\ ~req.atomic
    /\ pc = "done"
    /\ WritesDone = 1
    /\ outcome = Returned("error", "writefail", 2)
    /\ disk[req.path] # pre.disk[req.path]
    /\ disk[req.path] # File(AppliedPrefix(2))

---------------------------------------------------------------------------
(* Properties of the non-atomic batch (Spec) *)

DistinctPaths == \A i \in 1..Len(req.files) : ListedOnce(i)

\* the processing loop recorded a failure of file i
FailedAt(i) ==
    \E k \in 1..Len(errors) : errors[k].file = i /\ errors[k].kind \in FailStages

\* a write or a backup of path p was attempted
Touched(p) ==
    \E k \in 1..Len(log) : log[k].op \in {"write", "backup"} /\ log[k].path = p

\* the edit of entry i on the pre-request content of its file
EditOf(i) ==
    EditMultipleFilesResult(SplitLines(pre.disk[req.files[i].Path].content),
                            req.files[i].Operations)

\* C17: in a non-atomic batch over distinct files, when file i fails every
\* file written before it keeps its edited content; without
\* continue_on_error no later file is written or backed up; with
\* continue_on_error every later file that does not fail itself (an error
\* of its own, or operations that cannot be spliced) is edited
NonAtomicFailureHandling ==
    (pc = "done" /\ IsBatch /\ ~req.atomic /\ ~req.dryRun /\ DistinctPaths) =>
        \A i \in 1..Len(req.files) :
            FailedAt(i) =>
                /\ \A j \in 1..(i - 1) :
                      Wrote(req.files[j].Path) =>
                          disk[req.files[j].Path] = File(EditOf(j).text)
                /\ ~req.continueOnError =>
                      \A j \in (i + 1)..Len(req.files) : ~Touched(req.files[j].Path)
                /\ req.continueOnError =>
                      \A j \in (i + 1)..Len(req.files) :
                          (~FailedAt(j) /\ ~EditOf(j).panic) =>
                              /\ Wrote(req.files[j].Path)
                              /\ disk[req.files[j].Path] = File(EditOf(j).text)

\* the same request with the other value of continue_on_error
Flip(r) == [r EXCEPT !.continueOnError = ~r.continueOnError]

\* C18: continue_on_error has no effect when atomic is true: every step of
\* an atomic batch (its reception, each pre-pass and processing iteration,
\* with the I/O outcomes its log records) is also a step of the handler on
\* the request with continue_on_error flipped, so the two runs pass through
\* the same files, backups, results, errors and returned result
ContinueOnErrorIgnoredWhenAtomic ==
    [][ (req'.kind = "EditMultipleFiles" /\ req'.atomic) =>
            \/ BatchStart(Flip(req'))
            \/ PrepassWith(Flip(req'))
            \/ ProcessWith(Flip(req')) ]_vars

ContinueOnErrorIgnoredWhenAtomicWitness ==
    /\ pc = "done"
    /\ IsBatch
    /\ req.atomic
    /\ req.continueOnError
    /\ outcome.kind = "error"
    /\ outcome.what \in {"readfail", "backupfail", "writefail"}
    /\ outcome.at < Len(req.files)

\* C19: in a non-atomic batch with continue_on_error the errors returned to
\* the caller are in request order, whatever validate_all is: an error
\* about file i listed before an error about file j has i <= j
ErrorsInRequestOrder ==
    (pc = "done" /\ IsBatch /\ ~req.atomic /\ req.continueOnError
                 /\ outcome.kind = "text") =>
        \A k, m \in 1..Len(errors) :
            k < m => errors[k].file <= errors[m].file

---------------------------------------------------------------------------
(* SpecPath: IsPathAllowed called on every bounded path.  A path is made   *)
(* of at most MaxSegs segments joined by separators, rooted or relative;   *)
(* the segments include "", "." and "..", names of the allowed             *)
(* directories, and a name that only begins like one.                      *)

Segments ==
    {<<"t">>, <<"t", "x">>, <<"a">>, <<"v">>, <<"l">>, <<"e">>, <<"s">>,
     <<>>, <<".">>, <<".", ".">>}

RECURSIVE PathText(_)
PathText(segs) ==
    IF Len(segs) = 0 THEN <<>>
    ELSE IF Len(segs) = 1 THEN segs[1]
    ELSE segs[1] \o <<Sep>> \o PathText(Tail(segs))

\* the path argument as the caller writes it
PathOf(rooted, segs) == (IF rooted THEN <<Sep>> ELSE <<>>) \o PathText(segs)

InitPath ==
    /\ EngineIdle
    /\ \E rooted \in BOOLEAN :
        fn = [name |-> "path", rooted |-> rooted, segs |-> <<>>, out |-> FALSE]

\* the caller writes one more segment
AddSegment ==
    /\ fn.name = "path"
    /\ Len(fn.segs) < MaxSegs
    /\ \E seg \in Segments : fn' = [fn EXCEPT !.segs = Append(@, seg)]
    /\ UNCHANGED engineVars

CallIsPathAllowed ==
    /\ fn.name = "path"
    /\ fn' = [fn EXCEPT !.name = "IsPathAllowed",
                        !.out = IsPathAllowed(PathOf(fn.rooted, fn.segs))]
    /\ UNCHANGED engineVars

NextPath ==
    \/ AddSegment
    \/ CallIsPathAllowed

SpecPath == InitPath /\ [][NextPath]_vars

---------------------------------------------------------------------------
(* Properties of IsPathAllowed (SpecPath) *)

\* the directory names of the cleaned absolute path: a relative path starts
\* in the working directory, "" and "." name nothing, ".." goes one up
\* (a path whose text begins with a separator is absolute)
CanonSegs(rooted, segs) ==
    LET text == PathOf(rooted, segs)
        absolute == Len(text) > 0 /\ text[1] = Sep
    IN  CleanSegs((IF absolute THEN <<>> ELSE SplitOn(Cwd, Sep)) \o segs, <<>>)

\* the directory names of the k-th allow-list entry
EntrySegs(k) == CleanSegs(SplitOn(AllowedDirectories[k], Sep), <<>>)

\* the path named by canon is the directory named by entry or lies below it
Contained(canon, entry) ==
    /\ Len(canon) >= Len(entry)
    /\ \A i \in 1..Len(entry) : canon[i] = entry[i]

\* C20: IsPathAllowed answers true exactly when the cleaned absolute path
\* is an allow-list entry or lies below one, compared name by name (so a
\* name that only begins like an entry, and a path that leaves the entry
\* through "..", are refused); the call changes neither files nor backups
\* nor any other state
PathAllowedIffContained ==
    fn.name = "IsPathAllowed" =>
        /\ fn.out <=> \E k \in 1..Len(AllowedDirectories) :
                          Contained(CanonSegs(fn.rooted, fn.segs), EntrySegs(k))
        /\ EngineIdle

\* a refused path whose text begins with the text of an allowed directory
PathAllowedIffContainedWitness ==
    /\ fn.name = "IsPathAllowed"
    /\ ~fn.out
    /\ Len(PathOf(fn.rooted, fn.segs)) >= 2
    /\ SubSeq(PathOf(fn.rooted, fn.segs), 1, 2) = AllowedDirectories[1]

\* a symbolic link of the file system: the directory entry /t/s, inside
\* an allowed directory, points to /e, outside every allowed directory
\* (os.ReadFile and os.WriteFile follow it)
SymlinkAt == <<<<"t">>, <<"s">>>>
SymlinkTarget == <<<<"e">>>>

\* the directory names of the file a cleaned absolute path leads to
RealSegs(canon) ==
    IF Contained(canon, SymlinkAt)
    THEN SymlinkTarget \o SubSeq(canon, Len(SymlinkAt) + 1, Len(canon))
    ELSE canon

\* C21: a path that IsPathAllowed accepts leads, with symbolic links
\* followed, to a file inside an allowed directory: a path through a link
\* that leaves every allowed directory is refused
SymlinkEscapeRefused ==
    (fn.name = "IsPathAllowed" /\ fn.out) =>
        \E k \in 1..Len(AllowedDirectories) :
            Contained(RealSegs(CanonSegs(fn.rooted, fn.segs)), EntrySegs(k))

---------------------------------------------------------------------------
(* Properties of all edit handlers (Spec) *)

\* C22: every handler asks IsPathAllowed about a path before it touches it:
\* a read, backup or write is logged only for an allowed path and after a
\* successful check of that path; a file whose path is not allowed keeps its
\* content and gets no backup; a refused check is followed by no access to
\* the path and ends as the error of the request or as a recorded error of
\* the batch
SandboxAskedFirst ==
    /\ \A k \in 1..Len(log) :
          log[k].op \in {"read", "backup", "write"} =>
              /\ PathAllowed[log[k].path]
              /\ \E j \in 1..(k - 1) : log[j] = Ev("check", log[k].path, TRUE, 0)
    /\ \A p \in Paths :
          ~PathAllowed[p] =>
              /\ disk[p] = InitDisk[p]
              /\ \A ts \in 0..MaxClock : backups[<<p, ts>>] = NoFile
    /\ \A k \in 1..Len(log) :
          (log[k].op = "check" /\ ~log[k].ok) =>
              /\ ~PathAllowed[log[k].path]
              /\ IF IsBatch
                 THEN \/ outcome.kind = "error" /\ outcome.what = "notallowed"
                      \/ \E m \in 1..Len(errors) :
                            /\ errors[m].kind = "notallowed"
                            /\ req.files[errors[m].file].Path = log[k].path
                 ELSE outcome = Returned("error", "notallowed", 0)

\* a batch that was refused one path and wrote another
SandboxAskedFirstWitness ==
    /\ pc = "done"
    /\ \E k \in 1..Len(log) : log[k].op = "check" /\ ~log[k].ok
    /\ \E k \in 1..Len(log) : log[k].op = "write" /\ log[k].ok

\* C25: validation comes before the backup and the backup before the
\* write: an EditFile or InsertText request that is rejected because of
\* its line numbers has created no backup and written nothing, and in
\* every request a write of a path follows the backup of that path
ValidationPrecedesBackup ==
    /\ (pc = "done" /\ req.kind \in {"EditFile", "InsertText"}
                    /\ outcome.kind = "error" /\ outcome.what \in {"invalid", "error"}) =>
           /\ backups = pre.backups
           /\ disk = pre.disk
           /\ \A k \in 1..Len(log) : log[k].op \notin {"backup", "write"}
    /\ req.kind \in {"EditFile", "InsertText"} =>
           \A k, m \in 1..Len(log) :
               (log[k].op = "backup" /\ log[m].op = "write") => k < m

\* C27: an InsertText request with an insertion whose line is not a line
\* of the file (below 1 or above the number of lines) ends with an error
\* and leaves the file as it was
InsertOutsideFileRejected ==
    (/\ pc = "done"
     /\ req.kind = "InsertText"
     /\ \E i \in 1..Len(req.insertions) :
           req.insertions[i].Line \notin 1..Len(SplitLines(pre.disk[req.path].content))) =>
        /\ outcome.kind = "error"
        /\ disk = pre.disk
        /\ \A k \in 1..Len(log) : log[k].op # "write"

\* C28: the operation index in an error of EditFile is the 1-based
\* position, in the operation list of the request, of the operation at
\* fault: the operation (or pair) that the validator names fails the named
\* check, and the operation named by a write failure of the non-atomic loop
\* is the one whose write failed
EditFileErrorNamesRequestPosition ==
    (pc = "done" /\ req.kind = "EditFile" /\ outcome.kind = "error") =>
        /\ outcome.what = "invalid" =>
              LET v == errors[1].v
                  n == Len(SplitLines(pre.disk[req.path].content))
              IN  /\ v.i \in 1..Len(req.operations)
                  /\ IF v.kind = "overlap"
                     THEN /\ v.j \in 1..Len(req.operations)
                          /\ OperationsOverlap(req.operations[v.i], req.operations[v.j])
                     ELSE RangeError(n, req.operations[v.i], v.i) = v
        /\ (outcome.what = "writefail" /\ ~req.atomic) =>
              /\ outcome.at \in 1..Len(req.operations)
              /\ req.operations[outcome.at] = SortOperationsByLine(req.operations)[idx]

\* C29: every request ends with a text result or an error of the handler:
\* no splice takes a slice outside the current buffer, which would end the
\* handler with a run-time panic
NoSpliceOutOfBounds ==
    /\ outcome.kind # "panic"
    /\ pc = "done" => outcome.kind \in {"text", "error"}

---------------------------------------------------------------------------
(* The buffer between the splices (SpecOps) *)

\* the buffer before the k-th splice of the sorted operations
BufferBefore(lines, sortedOps, k) == ApplyOperations(lines, SubSeq(sortedOps, 1, k - 1))

\* C26: while a validated operation set is applied in the order of
\* SortOperationsByLine, before each splice the range of that operation
\* and of every operation still to come lies inside the current buffer
\* and holds the lines it held in the original buffer
SpliceKeepsPendingRanges ==
    (fn.name = "editfile" /\ ValidateEditOperations(fn.inLines, fn.inOps).kind = "ok") =>
        LET sortedOps == SortOperationsByLine(fn.inOps)
        IN  \A k \in 1..Len(sortedOps) :
                LET cur == BufferBefore(fn.inLines, sortedOps, k)
                IN  /\ ~cur.panic
                    /\ \A m \in k..Len(sortedOps) :
                          /\ 1 <= sortedOps[m].StartLine
                          /\ sortedOps[m].StartLine <= sortedOps[m].EndLine
                          /\ sortedOps[m].EndLine <= Len(cur.lines)
                          /\ \A l \in sortedOps[m].StartLine..sortedOps[m].EndLine :
                                cur.lines[l] = fn.inLines[l]

\* a validated list given in ascending order where the number of lines has
\* changed before the last splice
SpliceKeepsPendingRangesWitness ==
    /\ fn.name = "editfile"
    /\ ValidateEditOperations(fn.inLines, fn.inOps).kind = "ok"
    /\ Len(fn.inOps) >= 2
    /\ \A i \in 1..(Len(fn.inOps) - 1) : fn.inOps[i].StartLine < fn.inOps[i + 1].StartLine
    /\ Len(BufferBefore(fn.inLines, SortOperationsByLine(fn.inOps), Len(fn.inOps)).lines)
           # Len(fn.inLines)

---------------------------------------------------------------------------
(* SpecText: SplitLines and JoinLines called on every text of at most      *)
(* MaxText characters over two letters, CR and LF.                         *)

TextChars == {"a", "b", CR, LF}

InitText ==
    /\ EngineIdle
    /\ fn = [name |-> "text", t |-> <<>>, lines |-> <<>>, out |-> <<>>]

\* one more character of the file content
AddChar ==
    /\ fn.name = "text"
    /\ Len(fn.t) < MaxText
    /\ \E c \in TextChars : fn' = [fn EXCEPT !.t = Append(@, c)]
    /\ UNCHANGED engineVars

\* lines := SplitLines(content); JoinLines(lines), as the handlers do
\* around their edits
CallSplitJoin ==
    /\ fn.name = "text"
    /\ fn' = [fn EXCEPT !.name = "SplitJoin",
                        !.lines = SplitLines(fn.t),
                        !.out = JoinLines(SplitLines(fn.t))]
    /\ UNCHANGED engineVars

NextText ==
    \/ AddChar
    \/ CallSplitJoin

SpecText == InitText /\ [][NextText]_vars

---------------------------------------------------------------------------
(* Properties of SplitLines and JoinLines (SpecText) *)

RECURSIVE Normalize(_)
\* the text with every CR LF and every lone CR replaced by one LF, read
\* from left to right
Normalize(t) ==
    IF Len(t) = 0 THEN <<>>
    ELSE IF t[1] = CR
         THEN <<LF>> \o Normalize(SubSeq(t, (IF Len(t) >= 2 /\ t[2] = LF THEN 3 ELSE 2), Len(t)))
         ELSE <<t[1]>> \o Normalize(Tail(t))

\* number of line separators of a normalised text
Separators(t) == Cardinality({i \in 1..Len(t) : t[i] = LF})

---------------------------------------------------------------------------
(* Package config: the variables instance and once and the configuration  *)
(* file, and the functions behind the configuration tools.  A state c of   *)
(* the package is [instance, once, file]; instance is a pointer (isNil)    *)
(* to a types.ServerConfig.                                                *)

ServerConfig(blocked, shell, dirs, readLimit, writeLimit, telemetry) ==
    [BlockedCommands |-> blocked, DefaultShell |-> shell,
     AllowedDirectories |-> dirs, FileReadLineLimit |-> readLimit,
     FileWriteLineLimit |-> writeLimit, TelemetryEnabled |-> telemetry]

\* the zero value of types.ServerConfig
ZeroConfig == ServerConfig(<<>>, "", <<>>, 0, 0, FALSE)

\* the literal of Initialize (the lists shortened to the directories and
\* two of the patterns of the model)
DefaultConfig == ServerConfig(<<"rm -rf", "dd">>, "bash", AllowedDirectories, 1000, 50, FALSE)

NilPtr == [isNil |-> TRUE, cfg |-> ZeroConfig]
Ptr(cfg) == [isNil |-> FALSE, cfg |-> cfg]

AbsentFile == [state |-> "absent", cfg |-> ZeroConfig]
NullFile == [state |-> "null", cfg |-> ZeroConfig]
ConfigFile(cfg) == [state |-> "config", cfg |-> cfg]

\* loadFromFile: nothing without a readable file; json.Unmarshal of "null"
\* leaves the zero value; the fields of the file replace the defaults where
\* they are set, TelemetryEnabled always
LoadFromFile(inst, file) ==
    IF file.state = "absent" THEN inst
    ELSE LET f == file.cfg
         IN  ServerConfig(
                 IF Len(f.BlockedCommands) > 0 THEN f.BlockedCommands ELSE inst.BlockedCommands,
                 IF f.DefaultShell # "" THEN f.DefaultShell ELSE inst.DefaultShell,
                 IF Len(f.AllowedDirectories) > 0 THEN f.AllowedDirectories
                 ELSE inst.AllowedDirectories,
                 IF f.FileReadLineLimit > 0 THEN f.FileReadLineLimit ELSE inst.FileReadLineLimit,
                 IF f.FileWriteLineLimit > 0 THEN f.FileWriteLineLimit
                 ELSE inst.FileWriteLineLimit,
                 f.TelemetryEnabled)

\* Initialize: once.Do(func) runs the function at the first call only
Initialize(c) ==
    IF c.once THEN c
    ELSE [c EXCEPT !.once = TRUE, !.instance = Ptr(LoadFromFile(DefaultConfig, c.file))]

\* saveToFile: json.MarshalIndent(instance) written to the file ("null"
\* for a nil pointer)
SaveToFile(c) ==
    [c EXCEPT !.file = IF c.instance.isNil THEN NullFile ELSE ConfigFile(c.instance.cfg)]

\* "if instance == nil { Initialize() }"
Ensure(c) == IF c.instance.isNil THEN Initialize(c) ELSE c

\* the result of a call: the package state after it, how it ended ("ok",
\* "error" or the "panic" of a nil dereference), the configuration returned
Ended(c, kind, view) == [c |-> c, kind |-> kind, view |-> view]

\* Get: a copy of *instance
Get(c) ==
    LET d == Ensure(c)
    IN  IF d.instance.isNil THEN Ended(d, "panic", ZeroConfig)
        ELSE Ended(d, "ok", d.instance.cfg)

\* parseIntValue on the values of the model
ParseIntValue(value) ==
    CASE value = "5" -> [ok |-> TRUE, n |-> 5]
      [] value = "0" -> [ok |-> TRUE, n |-> 0]
      [] OTHER -> [ok |-> FALSE, n |-> 0]

\* Set
Set(c, key, value) ==
    LET d == Ensure(c)
        n == ParseIntValue(value)
        cfg == d.instance.cfg
        new == CASE key = "defaultShell" -> [cfg EXCEPT !.DefaultShell = value]
                 [] key = "telemetryEnabled" -> [cfg EXCEPT !.TelemetryEnabled = (value = "true")]
                 [] key = "fileReadLineLimit" -> [cfg EXCEPT !.FileReadLineLimit = n.n]
                 [] key = "fileWriteLineLimit" -> [cfg EXCEPT !.FileWriteLineLimit = n.n]
                 [] OTHER -> cfg
    IN  IF key \notin {"defaultShell", "telemetryEnabled", "fileReadLineLimit",
                       "fileWriteLineLimit"}
        THEN Ended(d, "error", ZeroConfig)
        ELSE IF key \in {"fileReadLineLimit", "fileWriteLineLimit"} /\ ~n.ok
        THEN Ended(d, "error", ZeroConfig)
        ELSE IF d.instance.isNil THEN Ended(d, "panic", ZeroConfig)
        ELSE Ended(SaveToFile([d EXCEPT !.instance = Ptr(new)]), "ok", ZeroConfig)

InList(list, x) == \E i \in 1..Len(list) : list[i] = x

\* AddAllowedDirectory
AddAllowedDirectory(c, dir) ==
    LET d == Ensure(c)
    IN  IF d.instance.isNil THEN Ended(d, "panic", ZeroConfig)
        ELSE IF InList(d.instance.cfg.AllowedDirectories, dir) THEN Ended(d, "ok", ZeroConfig)
        ELSE Ended(SaveToFile([d EXCEPT !.instance.cfg.AllowedDirectories = Append(@, dir)]),
                   "ok", ZeroConfig)

\* RemoveAllowedDirectory: the first equal entry is cut out
RemoveAllowedDirectory(c, dir) ==
    LET d == Ensure(c)
        list == d.instance.cfg.AllowedDirectories
    IN  IF d.instance.isNil THEN Ended(d, "panic", ZeroConfig)
        ELSE IF ~InList(list, dir) THEN Ended(d, "error", ZeroConfig)
        ELSE LET i == CHOOSE k \in 1..Len(list) :
                          list[k] = dir /\ \A m \in 1..(k - 1) : list[m] # dir
             IN  Ended(SaveToFile([d EXCEPT !.instance.cfg.AllowedDirectories =
                                       SubSeq(list, 1, i - 1) \o SubSeq(list, i + 1, Len(list))]),
                       "ok", ZeroConfig)

\* AddBlockedCommand
AddBlockedCommand(c, pattern) ==
    LET d == Ensure(c)
    IN  IF d.instance.isNil THEN Ended(d, "panic", ZeroConfig)
        ELSE IF InList(d.instance.cfg.BlockedCommands, pattern) THEN Ended(d, "ok", ZeroConfig)
        ELSE Ended(SaveToFile([d EXCEPT !.instance.cfg.BlockedCommands = Append(@, pattern)]),
                   "ok", ZeroConfig)

\* Validate: Get, then the checks of the copy
Validate(c) ==
    LET g == Get(c)
    IN  IF g.kind = "panic" THEN g
        ELSE IF \/ g.view.DefaultShell = ""
                \/ g.view.FileReadLineLimit < 1
                \/ g.view.FileWriteLineLimit < 1
                \/ Len(g.view.AllowedDirectories) = 0
        THEN Ended(g.c, "error", ZeroConfig)
        ELSE Ended(g.c, "ok", ZeroConfig)

\* Reset: instance = nil; Initialize(); saveToFile()
Reset(c) ==
    Ended(SaveToFile(Initialize([c EXCEPT !.instance = NilPtr])), "ok", ZeroConfig)

---------------------------------------------------------------------------
(* SpecCfg: the configuration tools called in every order.  fn.c is the    *)
(* state of package config, fn.name the tool called last, fn.prev the one  *)
(* before it, fn.out how the last call ended and what it returned.         *)

\* the files the server may find at start: none, one saved by an earlier
\* run, and the "null" that a reset of an earlier run left
StartFiles ==
    {AbsentFile, NullFile,
     ConfigFile([DefaultConfig EXCEPT !.DefaultShell = "zsh", !.TelemetryEnabled = TRUE])}

\* main: logStartupInfo calls Get before the first request is served
InitCfg ==
    /\ EngineIdle
    /\ \E f \in StartFiles :
        LET g == Get([instance |-> NilPtr, once |-> FALSE, file |-> f])
        IN  fn = [name |-> "start", prev |-> "none", c |-> g.c,
                  out |-> [kind |-> g.kind, view |-> g.view]]

\* fn after a tool handler has ended (a panic is recovered by the server)
ToolEnds(tool, r) ==
    [name |-> tool, prev |-> fn.name, c |-> r.c, out |-> [kind |-> r.kind, view |-> r.view]]

HandleGetConfig ==
    /\ fn' = ToolEnds("get_config", Get(fn.c))
    /\ UNCHANGED engineVars

HandleSetConfig ==
    /\ \E kv \in {<<"defaultShell", "zsh">>, <<"telemetryEnabled", "true">>,
                  <<"fileReadLineLimit", "5">>, <<"fileWriteLineLimit", "x">>,
                  <<"shell", "zsh">>} :
          fn' = ToolEnds("set_config_value", Set(fn.c, kv[1], kv[2]))
    /\ UNCHANGED engineVars

HandleAddAllowedDirectory ==
    /\ \E dir \in {<<Sep, "e">>, <<Sep, "t">>} :
          fn' = ToolEnds("add_allowed_directory", AddAllowedDirectory(fn.c, dir))
    /\ UNCHANGED engineVars

HandleRemoveAllowedDirectory ==
    /\ \E dir \in {<<Sep, "e">>, <<Sep, "t">>} :
          fn' = ToolEnds("remove_allowed_directory", RemoveAllowedDirectory(fn.c, dir))
    /\ UNCHANGED engineVars

HandleAddBlockedCommand ==
    /\ fn' = ToolEnds("add_blocked_command", AddBlockedCommand(fn.c, "curl"))
    /\ UNCHANGED engineVars

HandleValidateConfig ==
    /\ fn' = ToolEnds("validate_config", Validate(fn.c))
    /\ UNCHANGED engineVars

HandleResetConfig ==
    /\ fn' = ToolEnds("reset_config", Reset(fn.c))
    /\ UNCHANGED engineVars

NextCfg ==
    \/ HandleGetConfig
    \/ HandleSetConfig
    \/ HandleAddAllowedDirectory
    \/ HandleRemoveAllowedDirectory
    \/ HandleAddBlockedCommand
    \/ HandleValidateConfig
    \/ HandleResetConfig

SpecCfg == InitCfg /\ [][NextCfg]_vars

---------------------------------------------------------------------------
(* Properties of the configuration tools (SpecCfg) *)

\* C24: a get_config that follows a reset_config succeeds and returns the
\* default configuration
ResetRestoresDefaults ==
    (fn.name = "get_config" /\ fn.prev = "reset_config") =>
        fn.out = [kind |-> "ok", view |-> DefaultConfig]

---------------------------------------------------------------------------
(* SpecRepl: ReplaceText called in its two plain-text modes on every       *)
(* content of at most MaxContent characters.                               *)

ContentChars == {"A", "a", "B"}

\* the find strings of the calls: one or two characters, never empty
FindStrings ==
    {<<c>> : c \in ContentChars} \cup {<<c, d>> : c \in ContentChars, d \in ContentChars}

\* the values of max_replacements: negative, zero, positive
MaxReplacementsValues == {-1, 0, 1, 2}

\* the replacement text; it occurs in no content, whatever the case
Marker == <<"X">>

InitRepl ==
    /\ EngineIdle
    /\ \E f \in FindStrings, cs \in BOOLEAN, m \in MaxReplacementsValues :
          fn = [name |-> "repl", content |-> <<>>, find |-> f,
                caseSensitive |-> cs, maxReplacements |-> m,
                out |-> [err |-> FALSE, text |-> <<>>, count |-> 0]]

\* one more character of the file content
AddContentChar ==
    /\ fn.name = "repl"
    /\ Len(fn.content) < MaxContent
    /\ \E c \in ContentChars : fn' = [fn EXCEPT !.content = Append(@, c)]
    /\ UNCHANGED engineVars

\* common.ReplaceText(originalContent, find, replace, false, caseSensitive,
\* false, maxReplacements), as HandleReplaceText calls it
CallReplaceText ==
    /\ fn.name = "repl"
    /\ fn' = [fn EXCEPT !.name = "ReplaceText",
                        !.out = ReplaceText(fn.content, fn.find, Marker, FALSE,
                                            fn.caseSensitive, FALSE,
                                            fn.maxReplacements)]
    /\ UNCHANGED engineVars

NextRepl ==
    \/ AddContentChar
    \/ CallReplaceText

SpecRepl == InitRepl /\ [][NextRepl]_vars

---------------------------------------------------------------------------
(* Properties of ReplaceText (SpecRepl) *)

\* the call of the other plain-text mode on the same arguments
OtherMode ==
    ReplaceText(fn.content, fn.find, Marker, FALSE, ~fn.caseSensitive, FALSE,
                fn.maxReplacements)

\* C30: the count that ReplaceText reports is the number of occurrences
\* replaced in the content it returns, for every max_replacements, and on
\* a content and a find string without upper-case letters, where the two
\* modes find the same occurrences, both modes return the same content, so
\* that they take max_replacements as the same limit
ReplaceCountIsReplaced ==
    fn.name = "ReplaceText" =>
        /\ ~fn.out.err
        /\ fn.out.count = Count(fn.out.text, Marker)
        /\ (ToLower(fn.content) = fn.content /\ ToLower(fn.find) = fn.find)
              => fn.out.text = OtherMode.text

====
